---- MODULE Spec2Model ----
(***************************************************************************)
(* HashHound (hashhound.py): parse an NT hash dump, group the accounts     *)
(* that share a hash, classify the groups against a privileged list and    *)
(* render them to the console and to an optional CSV export.               *)
(*                                                                         *)
(* Text is modelled as a sequence of one-character strings, so that        *)
(* strip, split, lower and join are computed as Python computes them.      *)
(***************************************************************************)
EXTENDS Integers, Sequences, FiniteSets, TLC

VARIABLES pc, dump_file, dump, records, hashes, privileged_arg, privileged_file,
          privileged_accounts, duplicate_hashes, table, stdout, stderr,
          csvWritten, csvRows, output_file, exit_code

vars == <<pc, dump_file, dump, records, hashes, privileged_arg, privileged_file,
          privileged_accounts, duplicate_hashes, table, stdout, stderr,
          csvWritten, csvRows, output_file, exit_code>>

(***************************************************************************)
(* Bounds of the model.                                                    *)
(***************************************************************************)
\* longest dump file drawn from the full line alphabet DumpLines
MaxLines == 3
\* longest dump file drawn from the plain lines (one account, one hash)
MaxPlain == 6

(***************************************************************************)
(* Text helpers: Python's str methods on character sequences.              *)
(***************************************************************************)
Whitespace == {" ", "\n"}

\* str.lower(), one character
LowerChar(c) ==
    CASE c = "A" -> "a"
      [] c = "C" -> "c"
      [] c = "D" -> "d"
      [] OTHER -> c

\* str.lower()
Lower(s) == [i \in 1..Len(s) |-> LowerChar(s[i])]

\* str.strip(): drop leading and trailing whitespace
Strip(s) ==
    LET keep == {i \in 1..Len(s) : s[i] \notin Whitespace}
    IN  IF keep = {} THEN <<>>
        ELSE LET lo == CHOOSE i \in keep : \A j \in keep : i <= j
                 hi == CHOOSE i \in keep : \A j \in keep : i >= j
             IN  SubSeq(s, lo, hi)

\* str.split(sep) for a one-character separator: always at least one field
RECURSIVE Split(_, _)
Split(s, sep) ==
    LET at == {i \in 1..Len(s) : s[i] = sep}
    IN  IF at = {} THEN <<s>>
        ELSE LET k == CHOOSE i \in at : \A j \in at : i <= j
             IN  <<SubSeq(s, 1, k - 1)>> \o Split(SubSeq(s, k + 1, Len(s)), sep)

Last(s) == s[Len(s)]

\* sep.join(items)
RECURSIVE Join(_, _)
Join(items, sep) ==
    IF items = <<>> THEN <<>>
    ELSE IF Len(items) = 1 THEN items[1]
    ELSE items[1] \o sep \o Join(Tail(items), sep)

\* str(n) for the member counts the model reaches
Str(n) ==
    LET digit == <<"0", "1", "2", "3", "4", "5", "6", "7", "8", "9">>
    IN  IF n < 10 THEN <<digit[n + 1]>>
        ELSE <<digit[(n \div 10) + 1], digit[(n % 10) + 1]>>

(***************************************************************************)
(* Python dict with insertion order: a sequence of [k, v] items.           *)
(***************************************************************************)
Keys(d) == {d[i].k : i \in 1..Len(d)}

Get(d, key) == (CHOOSE i \in 1..Len(d) : d[i].k = key)

\* faulty variant: an overwritten key moves to the end (delete, then insert)
DictSetMoveToEnd(d, key, value) ==
    Append(SelectSeq(d, LAMBDA e : e.k # key), [k |-> key, v |-> value])

\* faulty variant: the first value of a key is kept (setdefault)
DictSetKeepFirst(d, key, value) ==
    IF key \in Keys(d) THEN d ELSE Append(d, [k |-> key, v |-> value])

\* d[key] = value: an existing key keeps its position
DictSet(d, key, value) ==
    IF key \in Keys(d)
    THEN [i \in 1..Len(d) |-> IF d[i].k = key THEN [k |-> key, v |-> value] ELSE d[i]]
    ELSE Append(d, [k |-> key, v |-> value])

\* defaultdict(list): d[key].append(item)
DictAppend(d, key, item) ==
    IF key \in Keys(d)
    THEN [i \in 1..Len(d) |->
            IF d[i].k = key THEN [k |-> key, v |-> Append(d[i].v, item)] ELSE d[i]]
    ELSE Append(d, [k |-> key, v |-> <<item>>])

(***************************************************************************)
(* The inputs: dump lines, privileged-list files, the -o argument.         *)
(***************************************************************************)
Letters == <<"a", "b", "c", "d", "e", "f", "g", "h">>
Hashes == <<"1", "2">>

\* username:RID:LM_hash:NT_hash:::
DumpLine(raw, h) == raw \o <<":", "5", ":", "L", ":", h, ":", ":", ":", "\n">>

\* a line of one plain account name and one hash
PlainLine(i, j) == DumpLine(<<Letters[i]>>, Hashes[j])

PlainLines == {PlainLine(i, j) : i \in 1..Len(Letters), j \in 1..Len(Hashes)}

\* the full alphabet: case and domain variants, an empty name, short lines
DumpLines ==
    {DumpLine(raw, h) : raw \in {<<"a">>, <<"D", "\\", "A">>, <<"b">>, <<>>},
                        h \in {"1", "2"}}
    \cup {<<"c", ":", "5", ":", "1", "\n">>,
          <<"b", ":", "5", ":", "L", ":", "2", "\n">>,
          <<" ", "D", "\\", ":", "5", ":", "L", ":", "1", "\n">>,
          <<"\n">>}

\* the account and the hash a plain line names, as indices (0: not a plain line)
AccountNo(l) ==
    IF l \in PlainLines
    THEN CHOOSE i \in 1..Len(Letters) : \E j \in 1..Len(Hashes) : l = PlainLine(i, j)
    ELSE 0
HashNo(l) ==
    IF l \in PlainLines
    THEN CHOOSE j \in 1..Len(Hashes) : \E i \in 1..Len(Letters) : l = PlainLine(i, j)
    ELSE 0

Max(S) == IF S = {} THEN 0 ELSE CHOOSE x \in S : \A y \in S : x >= y

\* a file of at most MaxLines lines of the full alphabet
GeneralNext(d, l) ==
    /\ Len(d) < MaxLines
    /\ l \in DumpLines
    /\ \A i \in 1..Len(d) : d[i] \in DumpLines

\* a plain file names its accounts and hashes in order of first appearance
Canonical(d) ==
    \A i \in 1..Len(d) :
        /\ d[i] \in PlainLines
        /\ AccountNo(d[i]) <= 1 + Max({AccountNo(d[j]) : j \in 1..(i - 1)})
        /\ HashNo(d[i]) <= 1 + Max({HashNo(d[j]) : j \in 1..(i - 1)})

\* a file of at most MaxPlain plain lines
PlainNext(d, l) ==
    /\ Len(d) < MaxPlain
    /\ l \in PlainLines
    /\ Canonical(Append(d, l))

PrivilegedFiles ==
    { << <<"D", "\\", "A", "\n">> >>,
      << <<"\n">>, <<"C", " ", "\n">> >> }

NoPath == "None"
OutputArgs == {NoPath, "results.csv"}

(***************************************************************************)
(* load_hashes                                                             *)
(***************************************************************************)
\* faulty variant: a line needs more than four fields
LineRecordStrict(line) ==
    LET parts == Split(Strip(line), ":")
    IN  IF Len(parts) > 4
        THEN LET username == Last(Split(Lower(parts[1]), "\\"))
                 nt_hash == parts[4]
             IN  <<[k |-> username, v |-> nt_hash]>>
        ELSE <<>>

\* the loop body up to the store: the record of a line, <<>> when it is skipped
LineRecord(line) ==
    LET parts == Split(Strip(line), ":")
    IN  IF Len(parts) >= 4
        THEN LET username == Last(Split(Lower(parts[1]), "\\"))
                 nt_hash == parts[4]
             IN  <<[k |-> username, v |-> nt_hash]>>
        ELSE <<>>

\* hashes[username] = nt_hash
Store(h, rec) == IF rec = <<>> THEN h ELSE DictSet(h, rec[1].k, rec[1].v)

(***************************************************************************)
(* load_privileged_accounts                                                *)
(***************************************************************************)
\* faulty variant: the case of the entry is kept
PrivilegedNameKeepCase(line) == Last(Split(Strip(line), "\\"))

PrivilegedName(line) == Last(Split(Lower(Strip(line)), "\\"))

PrivilegedSet(file) == {PrivilegedName(file[i]) : i \in 1..Len(file)}

(***************************************************************************)
(* find_duplicate_hashes                                                   *)
(***************************************************************************)
RECURSIVE HashToUsers(_)
HashToUsers(h) ==
    IF h = <<>> THEN <<>>
    ELSE LET n == Len(h)
         IN  DictAppend(HashToUsers(SubSeq(h, 1, n - 1)), h[n].v, h[n].k)

\* faulty variant: every hash is kept as a group
IsDuplicateAny(item) == Len(item.v) > 0

IsDuplicate(item) == Len(item.v) > 1

FindDuplicateHashes(h) == SelectSeq(HashToUsers(h), IsDuplicate)

(***************************************************************************)
(* display_results                                                         *)
(***************************************************************************)
DisplayLimit == 5

IsPrivileged(user, priv) == Lower(user) \in priv

ContainsPrivileged(users, priv) == \E i \in 1..Len(users) : IsPrivileged(users[i], priv)

Highlight(user, priv) ==
    IF IsPrivileged(user, priv) THEN <<"*">> \o user \o <<"*">> ELSE user

HighlightedUsers(users, priv) == [i \in 1..Len(users) |-> Highlight(users[i], priv)]

\* faulty variant: a group of exactly DisplayLimit members is already cut
DisplayedUsersBelowLimit(users, priv) ==
    IF Len(users) < DisplayLimit
    THEN Join(HighlightedUsers(users, priv), <<",", " ">>)
    ELSE Str(Len(users)) \o <<" accounts detected. Export to CSV for full list.">>

DisplayedUsers(users, priv) ==
    IF Len(users) <= DisplayLimit
    THEN Join(HighlightedUsers(users, priv), <<",", " ">>)
    ELSE Str(Len(users)) \o <<" accounts detected. Export to CSV for full list.">>

Entry(item, priv) ==
    [nt_hash |-> item.k, user_count |-> Len(item.v),
     displayed_users |-> DisplayedUsers(item.v, priv)]

RECURSIVE Partition(_, _, _)
\* the entries of the groups that do (want = TRUE) or do not contain a privileged user
Partition(dups, priv, want) ==
    IF dups = <<>> THEN <<>>
    ELSE LET rest == Partition(Tail(dups), priv, want)
         IN  IF ContainsPrivileged(Head(dups).v, priv) = want
             THEN <<Entry(Head(dups), priv)>> \o rest
             ELSE rest

\* faulty variant: the privileged rows are put last
SortedTableAppended(dups, priv) ==
    Partition(dups, priv, FALSE) \o Partition(dups, priv, TRUE)

SortedTable(dups, priv) == Partition(dups, priv, TRUE) \o Partition(dups, priv, FALSE)

CsvHeader == << <<"NT Hash">>, <<"Shared By (Count)">>, <<"User Accounts">> >>

\* faulty variant: the export row takes the console's cut text
CsvRowTruncated(item, priv) ==
    <<item.k, Str(Len(item.v)), DisplayedUsers(item.v, priv)>>

CsvRow(item, priv) ==
    <<item.k, Str(Len(item.v)), Join(HighlightedUsers(item.v, priv), <<",", " ">>)>>

CsvFile(dups, priv) == <<CsvHeader>> \o [i \in 1..Len(dups) |-> CsvRow(dups[i], priv)]

(***************************************************************************)
(* The run of main().                                                      *)
(***************************************************************************)
NotExited == -1

Init ==
    /\ pc = "main"
    /\ dump_file = "unopened"
    /\ dump = <<>>
    /\ records = <<>>
    /\ hashes = <<>>
    /\ privileged_arg = "unread"
    /\ privileged_file = <<>>
    /\ privileged_accounts = {}
    /\ duplicate_hashes = <<>>
    /\ table = <<>>
    /\ stdout = <<>>
    /\ stderr = <<>>
    /\ csvWritten = FALSE
    /\ csvRows = <<>>
    /\ output_file = NoPath
    /\ exit_code = NotExited

\* main prints the banner; load_hashes opens the dump file
OpenDump ==
    /\ pc = "main"
    /\ pc' = "load_hashes"
    /\ dump_file' = "found"
    /\ stdout' = Append(stdout, "Analyzing NT password hash dump")
    /\ UNCHANGED <<dump, records, hashes, privileged_arg, privileged_file,
                   privileged_accounts, duplicate_hashes, table, stderr,
                   csvWritten, csvRows, output_file, exit_code>>

\* open() raises FileNotFoundError: message and sys.exit(1)
DumpNotFound ==
    /\ pc = "main"
    /\ pc' = "exit"
    /\ dump_file' = "missing"
    /\ stdout' = Append(stdout, "Analyzing NT password hash dump")
    /\ stderr' = Append(stderr, "Error: File not found.")
    /\ exit_code' = 1
    /\ UNCHANGED <<dump, records, hashes, privileged_arg, privileged_file,
                   privileged_accounts, duplicate_hashes, table, csvWritten,
                   csvRows, output_file>>

\* one iteration of the loop over the dump's lines
ReadLine ==
    /\ pc = "load_hashes"
    /\ \E line \in DumpLines \cup PlainLines :
          /\ \/ GeneralNext(dump, line)
             \/ PlainNext(dump, line)
          /\ dump' = Append(dump, line)
          /\ records' = Append(records, LineRecord(line))
          /\ hashes' = Store(hashes, LineRecord(line))
    /\ UNCHANGED <<pc, dump_file, privileged_arg, privileged_file,
                   privileged_accounts, duplicate_hashes, table, stdout,
                   stderr, csvWritten, csvRows, output_file, exit_code>>

\* end of file with no record parsed: main reports it and exits 1
NoHashes ==
    /\ pc = "load_hashes"
    /\ hashes = <<>>
    /\ pc' = "exit"
    /\ stderr' = Append(stderr, "No hashes found. Exiting.")
    /\ exit_code' = 1
    /\ UNCHANGED <<dump_file, dump, records, hashes, privileged_arg, privileged_file,
                   privileged_accounts, duplicate_hashes, table, stdout,
                   csvWritten, csvRows, output_file>>

\* end of file with records: load_hashes returns them to main
HashesLoaded ==
    /\ pc = "load_hashes"
    /\ hashes # <<>>
    /\ pc' = "privileged"
    /\ UNCHANGED <<dump_file, dump, records, hashes, privileged_arg, privileged_file,
                   privileged_accounts, duplicate_hashes, table, stdout,
                   stderr, csvWritten, csvRows, output_file, exit_code>>

\* no --privileged argument: the set stays empty
NoPrivilegedArg ==
    /\ pc = "privileged"
    /\ pc' = "find_duplicate_hashes"
    /\ privileged_arg' = "None"
    /\ privileged_accounts' = {}
    /\ UNCHANGED <<dump_file, dump, records, hashes, privileged_file,
                   duplicate_hashes, table, stdout, stderr, csvWritten,
                   csvRows, output_file, exit_code>>

\* --privileged names a file that exists
LoadPrivilegedAccounts ==
    /\ pc = "privileged"
    /\ pc' = "find_duplicate_hashes"
    /\ privileged_arg' = "found"
    /\ \E file \in PrivilegedFiles :
          /\ privileged_file' = file
          /\ privileged_accounts' = PrivilegedSet(file)
    /\ UNCHANGED <<dump_file, dump, records, hashes, duplicate_hashes, table, stdout,
                   stderr, csvWritten, csvRows, output_file, exit_code>>

\* --privileged names a missing file: warning, empty set, the run goes on
PrivilegedNotFound ==
    /\ pc = "privileged"
    /\ pc' = "find_duplicate_hashes"
    /\ privileged_arg' = "missing"
    /\ privileged_accounts' = {}
    /\ stderr' = Append(stderr, "Warning: Privileged accounts file not found.")
    /\ UNCHANGED <<dump_file, dump, records, hashes, privileged_file,
                   duplicate_hashes, table, stdout, csvWritten, csvRows,
                   output_file, exit_code>>

FindDuplicates ==
    /\ pc = "find_duplicate_hashes"
    /\ pc' = "display_results"
    /\ duplicate_hashes' = FindDuplicateHashes(hashes)
    /\ UNCHANGED <<dump_file, dump, records, hashes, privileged_arg, privileged_file,
                   privileged_accounts, table, stdout, stderr, csvWritten,
                   csvRows, output_file, exit_code>>

\* faulty variant: with no group the export is still written, header only
DisplayNoneWritesHeader ==
    /\ pc = "display_results"
    /\ duplicate_hashes = <<>>
    /\ \E out \in OutputArgs :
          /\ output_file' = out
          /\ IF out # NoPath
             THEN csvWritten' = TRUE /\ csvRows' = <<CsvHeader>>
             ELSE UNCHANGED <<csvWritten, csvRows>>
    /\ stdout' = Append(stdout, "No duplicate hashes found.")
    /\ pc' = "exit"
    /\ exit_code' = 0
    /\ UNCHANGED <<dump_file, dump, records, hashes, privileged_arg, privileged_file,
                   privileged_accounts, duplicate_hashes, table, stderr>>

\* display_results with no group: the notice, and return
DisplayNone ==
    /\ pc = "display_results"
    /\ duplicate_hashes = <<>>
    /\ \E out \in OutputArgs : output_file' = out
    /\ stdout' = Append(stdout, "No duplicate hashes found.")
    /\ pc' = "exit"
    /\ exit_code' = 0
    /\ UNCHANGED <<dump_file, dump, records, hashes, privileged_arg, privileged_file,
                   privileged_accounts, duplicate_hashes, table, stderr,
                   csvWritten, csvRows>>

\* display_results with groups: the table, then the export when -o is given
DisplayTable ==
    /\ pc = "display_results"
    /\ duplicate_hashes # <<>>
    /\ table' = SortedTable(duplicate_hashes, privileged_accounts)
    /\ \E out \in OutputArgs :
          /\ output_file' = out
          /\ IF out # NoPath
             THEN /\ csvWritten' = TRUE
                  /\ csvRows' = CsvFile(duplicate_hashes, privileged_accounts)
                  /\ stdout' = stdout \o <<"Accounts sharing the same password", "table",
                                           "Results saved">>
             ELSE /\ UNCHANGED <<csvWritten, csvRows>>
                  /\ stdout' = stdout \o <<"Accounts sharing the same password", "table">>
    /\ pc' = "exit"
    /\ exit_code' = 0
    /\ UNCHANGED <<dump_file, dump, records, hashes, privileged_arg, privileged_file,
                   privileged_accounts, duplicate_hashes, stderr>>

Next ==
    \/ OpenDump
    \/ DumpNotFound
    \/ ReadLine
    \/ NoHashes
    \/ HashesLoaded
    \/ NoPrivilegedArg
    \/ LoadPrivilegedAccounts
    \/ PrivilegedNotFound
    \/ FindDuplicates
    \/ DisplayNone
    \/ DisplayTable

Spec == Init /\ [][Next]_vars

(***************************************************************************)
(* Vocabulary of the properties, stated on the inputs and the outputs.     *)
(***************************************************************************)
Grouped == pc \in {"display_results", "exit"}
Displayed == pc = "exit" /\ exit_code = 0

\* the value the mapping holds for an identifier
HashOf(user) == hashes[Get(hashes, user)].v

\* the identifiers of the mapping that hold hash h
HoldersOf(h) == {hashes[i].k : i \in {j \in 1..Len(hashes) : hashes[j].v = h}}

SharedHashes ==
    {h \in {hashes[i].v : i \in 1..Len(hashes)} : Cardinality(HoldersOf(h)) >= 2}

Members(users) == {users[i] : i \in 1..Len(users)}

\* a line yields a record when it has at least four colon-separated fields
Colons(line) == Cardinality({i \in 1..Len(line) : line[i] = ":"})
YieldsRecord(line) == Colons(line) >= 3

\* the lines of the dump that carry identifier u, and those that carry hash h
LinesOfUser(u) == {i \in 1..Len(records) : records[i] # <<>> /\ records[i][1].k = u}
LinesOfHash(h) == {i \in 1..Len(records) : records[i] # <<>> /\ records[i][1].v = h}

Min(S) == CHOOSE x \in S : \A y \in S : x <= y

\* the pieces of a text between occurrences of ", "
RECURSIVE Pieces(_)
Pieces(text) ==
    LET at == {i \in 1..(Len(text) - 1) : text[i] = "," /\ text[i + 1] = " "}
    IN  IF at = {} THEN <<text>>
        ELSE <<SubSeq(text, 1, Min(at) - 1)>> \o Pieces(SubSeq(text, Min(at) + 2, Len(text)))

Starred(x) == <<"*">> \o x \o <<"*">>

Unstarred(item) ==
    IF Len(item) >= 2 /\ item[1] = "*" /\ item[Len(item)] = "*"
    THEN SubSeq(item, 2, Len(item) - 1)
    ELSE item

\* the identifiers a rendered member list shows
IdsShown(text) == {Unstarred(Pieces(text)[i]) : i \in 1..Len(Pieces(text))}

\* the console row and the export row of the group for hash h
ConsoleRow(h) == table[CHOOSE i \in 1..Len(table) : table[i].nt_hash = h]
ExportRow(h) == csvRows[CHOOSE i \in 2..Len(csvRows) : csvRows[i][1] = h]

\* a group with a member in the privileged set
HasPrivileged(h) == HoldersOf(h) \cap privileged_accounts # {}

(***************************************************************************)
(* C1: the groups of find_duplicate_hashes are exactly the hash values     *)
(* held by two or more identifiers of the mapping, each group lists        *)
(* exactly the holders of its hash, each once, and no group or displayed   *)
(* row has fewer than two members.                                         *)
(***************************************************************************)
C1_GroupsAreSharedHashes ==
    Grouped =>
        /\ Keys(duplicate_hashes) = SharedHashes
        /\ Len(duplicate_hashes) = Cardinality(SharedHashes)
        /\ \A i \in 1..Len(duplicate_hashes) :
              /\ Members(duplicate_hashes[i].v) = HoldersOf(duplicate_hashes[i].k)
              /\ Len(duplicate_hashes[i].v) = Cardinality(HoldersOf(duplicate_hashes[i].k))
              /\ Len(duplicate_hashes[i].v) >= 2
        /\ \A i \in 1..Len(table) : table[i].user_count >= 2

\* a run that kept a shared hash and dropped a hash held by one account
C1_Witness ==
    /\ Displayed
    /\ Len(table) = 1
    /\ \E u \in Keys(hashes) : Cardinality(HoldersOf(HashOf(u))) = 1

(***************************************************************************)
(* C2: the exit status is 1 exactly when the dump file is missing or       *)
(* yields no record, and then no table is printed and no export written;   *)
(* every other run, a missing privileged file and the outcome of no        *)
(* duplicate group included, ends with status 0.                           *)
(***************************************************************************)
C2_ExitStatus ==
    pc = "exit" =>
        /\ exit_code \in {0, 1}
        /\ exit_code = 1 <=>
              \/ dump_file = "missing"
              \/ \A i \in 1..Len(dump) : ~YieldsRecord(dump[i])
        /\ exit_code = 1 =>
              /\ table = <<>>
              /\ ~csvWritten
              /\ \A i \in 1..Len(stdout) : stdout[i] # "table"

\* a run with a missing privileged file and no duplicate group that ended with 0
C2_Witness ==
    /\ pc = "exit"
    /\ exit_code = 0
    /\ privileged_arg = "missing"
    /\ duplicate_hashes = <<>>
    /\ \E i \in 1..Len(dump) : ~YieldsRecord(dump[i])

(***************************************************************************)
(* C3: with at least one record, no duplicate group and an export path     *)
(* requested, the no-duplicates message is printed, the export file is     *)
(* written with the header row and no data row, and the exit code is 0.    *)
(***************************************************************************)
AllUnique == \A u, w \in Keys(hashes) : u # w => HashOf(u) # HashOf(w)

NoDuplicatesRun == pc = "exit" /\ hashes # <<>> /\ AllUnique /\ output_file # NoPath

\* C3 as claimed: the message, a header-only export file and exit code 0
C3_HeaderOnlyExport ==
    NoDuplicatesRun =>
        /\ stdout[Len(stdout)] = "No duplicate hashes found."
        /\ csvWritten
        /\ csvRows = <<CsvHeader>>
        /\ exit_code = 0

\* C3 as the code has it: the message, exit code 0, and no export file at all
C3_NoExportWithoutGroups ==
    NoDuplicatesRun =>
        /\ stdout[Len(stdout)] = "No duplicate hashes found."
        /\ ~csvWritten
        /\ csvRows = <<>>
        /\ exit_code = 0

C3_Witness == NoDuplicatesRun /\ Len(hashes) >= 2

(***************************************************************************)
(* C4: in the console table all rows of groups with a privileged member    *)
(* come before all rows of groups with none, and every group has exactly   *)
(* one row.                                                                *)
(***************************************************************************)
C4_PrivilegedFirst ==
    Displayed =>
        /\ \A i, j \in 1..Len(table) :
              i < j => ~(~HasPrivileged(table[i].nt_hash) /\ HasPrivileged(table[j].nt_hash))
        /\ Len(table) = Cardinality(SharedHashes)
        /\ \A h \in SharedHashes :
              Cardinality({i \in 1..Len(table) : table[i].nt_hash = h}) = 1

\* a privileged group found after a non-privileged one, shown before it
C4_Witness ==
    /\ Displayed
    /\ Len(table) = 2
    /\ HasPrivileged(table[1].nt_hash)
    /\ ~HasPrivileged(table[2].nt_hash)
    /\ duplicate_hashes[1].k = table[2].nt_hash

(***************************************************************************)
(* C5: within each console partition the groups appear in the order in     *)
(* which their hash values were first seen in the dump file, also when an  *)
(* identifier occurs on several lines with different hashes.               *)
(***************************************************************************)
SamePartition(g, h) == HasPrivileged(g) <=> HasPrivileged(h)

FirstLineOfHash(h) == Min(LinesOfHash(h))

\* the earliest line that carries a member of the group for hash h
FirstLineOfGroup(h) == Min(UNION {LinesOfUser(u) : u \in HoldersOf(h)})

\* no identifier occurs on two lines with different hashes
NoRehash ==
    \A i, j \in 1..Len(records) :
        records[i] # <<>> /\ records[j] # <<>> /\ records[i][1].k = records[j][1].k
        => records[i][1].v = records[j][1].v

\* C5 as claimed: rows of one partition follow the first-seen order of their hashes
C5_FirstSeenHashOrder ==
    Displayed =>
        \A i, j \in 1..Len(table) :
            i < j /\ SamePartition(table[i].nt_hash, table[j].nt_hash)
            => FirstLineOfHash(table[i].nt_hash) < FirstLineOfHash(table[j].nt_hash)

\* C5 as the code has it: the groups of a partition are ordered by the
\* earliest line carrying one of their members, which is the first-seen
\* order of the hashes when no identifier recurs with a different hash
C5_FirstMemberOrder ==
    Displayed =>
        \A i, j \in 1..Len(table) :
            i < j /\ SamePartition(table[i].nt_hash, table[j].nt_hash)
            => /\ FirstLineOfGroup(table[i].nt_hash) < FirstLineOfGroup(table[j].nt_hash)
               /\ NoRehash =>
                     FirstLineOfHash(table[i].nt_hash) < FirstLineOfHash(table[j].nt_hash)

\* two groups of one partition shown against the first-seen order of their hashes
C5_Witness ==
    /\ Displayed
    /\ Len(table) = 2
    /\ SamePartition(table[1].nt_hash, table[2].nt_hash)
    /\ FirstLineOfHash(table[2].nt_hash) < FirstLineOfHash(table[1].nt_hash)

(***************************************************************************)
(* C6: a blank line of the privileged file never matches an account of     *)
(* the dump: no identifier is highlighted because of it.                   *)
(***************************************************************************)
\* lowercase, and the text after the last backslash
Normalized(raw) ==
    LET s == Lower(Strip(raw))
    IN  SubSeq(s, Max({i \in 1..Len(s) : s[i] = "\\"}) + 1, Len(s))

HasBlankLine(file) == \E i \in 1..Len(file) : Strip(file[i]) = <<>>

PieceSet(text) == {Pieces(text)[i] : i \in 1..Len(Pieces(text))}

\* the entries of the privileged file other than blank lines
NamedEntries == {Normalized(privileged_file[i]) : i \in 1..Len(privileged_file)} \ {<<>>}

\* C6: with a blank line in the privileged file, no row shows the empty name
\* highlighted and every privileged group has a member named by another entry
C6_BlankNeverMatches ==
    Displayed /\ privileged_arg = "found" /\ HasBlankLine(privileged_file) =>
        \A i \in 1..Len(table) :
            /\ Starred(<<>>) \notin PieceSet(table[i].displayed_users)
            /\ HasPrivileged(table[i].nt_hash) =>
                  HoldersOf(table[i].nt_hash) \cap NamedEntries # {}

(***************************************************************************)
(* C7: for every duplicate group the identifiers of its console row are    *)
(* the identifiers of its export row, whatever the size of the group.      *)
(***************************************************************************)
Exported == Displayed /\ csvWritten

\* C7 as claimed: the console row and the export row show the same identifiers
C7_RoundTrip ==
    Exported =>
        \A h \in Keys(duplicate_hashes) :
            IdsShown(ConsoleRow(h).displayed_users) = IdsShown(ExportRow(h)[3])

\* C7 as the code has it: the two rows show the same identifiers for a group
\* of at most 5 members; a larger group's console row shows none of them
C7_RoundTripUpToFive ==
    Exported =>
        \A h \in Keys(duplicate_hashes) :
            /\ IdsShown(ExportRow(h)[3]) = HoldersOf(h)
            /\ IF Cardinality(HoldersOf(h)) <= 5
               THEN IdsShown(ConsoleRow(h).displayed_users) = HoldersOf(h)
               ELSE IdsShown(ConsoleRow(h).displayed_users) \cap HoldersOf(h) = {}

\* an exported group of exactly 5 members, one of them highlighted
C7_Witness ==
    /\ Exported
    /\ \E h \in Keys(duplicate_hashes) :
          /\ Cardinality(HoldersOf(h)) = 5
          /\ HasPrivileged(h)

(***************************************************************************)
(* C8: an entry of the privileged file that normalizes to a member x of a  *)
(* duplicate group makes the group privileged and x rendered as *x* in     *)
(* the console row and in the export row.                                  *)
(***************************************************************************)
PrivilegedEntries == {Normalized(privileged_file[i]) : i \in 1..Len(privileged_file)}

PrivilegedGroups == {h \in SharedHashes : HoldersOf(h) \cap PrivilegedEntries # {}}

\* the row of the group is among the rows placed first
Prioritized(h) ==
    \E i \in 1..Cardinality(PrivilegedGroups) : i <= Len(table) /\ table[i].nt_hash = h

\* C8 as claimed: the group is placed first and *x* is in both rows
C8_HighlightedInBoth ==
    Exported =>
        \A x \in PrivilegedEntries : \A h \in SharedHashes :
            x \in HoldersOf(h) =>
                /\ Prioritized(h)
                /\ Starred(x) \in PieceSet(ConsoleRow(h).displayed_users)
                /\ Starred(x) \in PieceSet(ExportRow(h)[3])

\* C8 as the code has it: *x* is in the console row only when the group has
\* at most 5 members, and in the export row whenever an export is written
C8_HighlightedWhereListed ==
    Displayed =>
        \A x \in PrivilegedEntries : \A h \in SharedHashes :
            x \in HoldersOf(h) =>
                /\ Prioritized(h)
                /\ Cardinality(HoldersOf(h)) <= 5 =>
                      Starred(x) \in PieceSet(ConsoleRow(h).displayed_users)
                /\ csvWritten => Starred(x) \in PieceSet(ExportRow(h)[3])

\* an exported group of 6 members with a member named by a DOMAIN\NAME entry
C8_Witness ==
    /\ Exported
    /\ \E i \in 1..Len(privileged_file) : \E h \in SharedHashes :
          /\ privileged_file[i] # Normalized(privileged_file[i]) \o <<"\n">>
          /\ Normalized(privileged_file[i]) \in HoldersOf(h)
          /\ Cardinality(HoldersOf(h)) = 6

(***************************************************************************)
(* C9: the export has exactly one data row per group, each row lists all   *)
(* the members of its group also when there are more than 5, and the rows  *)
(* are in the grouper's encounter order, not privileged-first.             *)
(***************************************************************************)
C9_ExportListsAll ==
    Exported =>
        /\ csvRows[1] = CsvHeader
        /\ Len(csvRows) = 1 + Cardinality(SharedHashes)
        /\ Len(csvRows) = 1 + Len(duplicate_hashes)
        /\ \A i \in 1..Len(duplicate_hashes) :
              LET row == csvRows[i + 1]
                  h == duplicate_hashes[i].k
              IN  /\ row[1] = h
                  /\ row[2] = Str(Cardinality(HoldersOf(h)))
                  /\ IdsShown(row[3]) = HoldersOf(h)
                  /\ Len(Pieces(row[3])) = Cardinality(HoldersOf(h))
        /\ \A i, j \in 2..Len(csvRows) :
              i < j => FirstLineOfGroup(csvRows[i][1]) < FirstLineOfGroup(csvRows[j][1])

\* an export whose row lists the 6 members of a group
C9_Witness ==
    /\ Exported
    /\ \E i \in 2..Len(csvRows) : Len(Pieces(csvRows[i][3])) = 6

(***************************************************************************)
(* C10: an identifier is in at most one group, and that group is the one   *)
(* of the hash on the last dump line that carries the identifier, also     *)
(* when the identifier recurs in another case or with a domain prefix.     *)
(***************************************************************************)
LastHashOf(u) == records[Max(LinesOfUser(u))][1].v

\* C10: groups are disjoint, list no member twice, and each member's group is
\* that of the hash on the last line carrying the member
C10_LastWriteWins ==
    Grouped =>
        /\ \A i, j \in 1..Len(duplicate_hashes) :
              i # j => Members(duplicate_hashes[i].v) \cap Members(duplicate_hashes[j].v) = {}
        /\ \A i \in 1..Len(duplicate_hashes) :
              /\ Len(duplicate_hashes[i].v) = Cardinality(Members(duplicate_hashes[i].v))
              /\ \A u \in Members(duplicate_hashes[i].v) :
                    /\ LinesOfUser(u) # {}
                    /\ LastHashOf(u) = duplicate_hashes[i].k

\* a grouped identifier that recurred in another spelling with another hash
C10_Witness ==
    /\ Grouped
    /\ \E g \in 1..Len(duplicate_hashes) : \E u \in Members(duplicate_hashes[g].v) :
          \E i, j \in LinesOfUser(u) :
              /\ i < j
              /\ Split(dump[i], ":")[1] # Split(dump[j], ":")[1]
              /\ records[i][1].v # records[j][1].v

====
